---- MODULE Spec2Model ----
(***************************************************************************)
(* Model of csv_validate_for_v1/validate_csv_big.py: the streaming CSV     *)
(* validator (encoding check, header check, single pass over the data      *)
(* rows with counters, bounded samples, clean copy and error log, final    *)
(* report).                                                                *)
(*                                                                         *)
(* Text is modelled as sequences of tokens: a field is a sequence of       *)
(* tokens (one-character strings for digits, signs and blanks, a word for  *)
(* any other run of characters), a record is a sequence of fields, a file  *)
(* is a byte-order-mark flag plus its records.  Python's None is the empty *)
(* sequence where a record is optional and the string "None" for a code.   *)
(***************************************************************************)
EXTENDS Integers, Sequences, FiniteSets

VARIABLES
    big_csv,          \* the subject file: [bom, first, bad]
    sample_csv,       \* the reference file: <<>> when not configured, else <<[bom, first]>>
    out_clean,        \* TRUE iff --out-clean is set
    errors_out,       \* TRUE iff --errors-out is set
    sample_per_type,  \* --sample-per-type
    max_print_errors, \* --max-print-errors
    progress_every,   \* --progress-every
    pc,               \* position in validate_csv / main
    rows,             \* the data records read from the subject file so far
    expected_header,
    total,
    valid,
    err_counts,       \* ordered dict: sequence of [k, v], v a count
    err_samples,      \* ordered dict: sequence of [k, v], v a sequence of messages
    printed,
    clean_fh,         \* "none", "open", "closed"
    clean_file,       \* rows written through clean_wr
    clean_closes,     \* number of clean_fh.close() calls
    err_fh,           \* "none", "open", "closed"
    err_file,         \* rows written through err_wr
    err_closes,       \* number of err_fh.close() calls
    stdout,           \* the console: sequence of [tag, code, n, msg]
    exit_status,      \* -1 while running, then the process's exit status
    probe,            \* a direct call of validate_row: [row, line_no, code, msg]
    first_run         \* <<>>, or <<r>>: what an earlier run on these inputs left

vars == <<big_csv, sample_csv, out_clean, errors_out, sample_per_type,
          max_print_errors, progress_every, pc, rows, expected_header, total,
          valid, err_counts, err_samples, printed, clean_fh, clean_file,
          clean_closes, err_fh, err_file, err_closes, stdout, exit_status, probe,
          first_run>>

config == <<big_csv, sample_csv, out_clean, errors_out, sample_per_type,
            max_print_errors, progress_every, probe, first_run>>

(***************************************************************************)
(* Bounds of the model.                                                    *)
(***************************************************************************)
MaxRows == 3
MaxSamples == 2
MaxPrint == 2
ProgressStep == 2

(***************************************************************************)
(* Text.                                                                   *)
(***************************************************************************)
None == "None"

Whitespace == {" ", "\t"}

Digits == {"0", "1", "2", "3", "4", "5", "6", "7", "8", "9"}

DigitVal(d) ==
    CASE d = "0" -> 0 [] d = "1" -> 1 [] d = "2" -> 2 [] d = "3" -> 3
      [] d = "4" -> 4 [] d = "5" -> 5 [] d = "6" -> 6 [] d = "7" -> 7
      [] d = "8" -> 8 [] d = "9" -> 9

RECURSIVE LStrip(_)
LStrip(s) ==
    IF s # <<>> /\ s[1] \in Whitespace THEN LStrip(Tail(s)) ELSE s

RECURSIVE RStrip(_)
RStrip(s) ==
    IF s # <<>> /\ s[Len(s)] \in Whitespace
    THEN RStrip(SubSeq(s, 1, Len(s) - 1))
    ELSE s

\* str.strip()
Strip(s) == RStrip(LStrip(s))

\* The digits part of an integer literal once blanks and sign are removed.
IntBody(s) ==
    LET t == Strip(s)
    IN  IF t # <<>> /\ t[1] \in {"+", "-"} THEN Tail(t) ELSE t

\* int(s) does not raise: optional blanks, optional sign, digits with single
\* underscores between them.
IsInt(s) ==
    LET b == IntBody(s)
    IN  /\ b # <<>>
        /\ \A i \in 1..Len(b) : b[i] \in Digits \cup {"_"}
        /\ b[1] # "_"
        /\ b[Len(b)] # "_"
        /\ \A i \in 1..(Len(b) - 1) : ~(b[i] = "_" /\ b[i + 1] = "_")

RECURSIVE Magnitude(_)
Magnitude(b) ==
    IF b = <<>> THEN 0
    ELSE IF b[Len(b)] = "_" THEN Magnitude(SubSeq(b, 1, Len(b) - 1))
    ELSE 10 * Magnitude(SubSeq(b, 1, Len(b) - 1)) + DigitVal(b[Len(b)])

\* The value of int(s), for IsInt(s).
IntValue(s) ==
    LET t == Strip(s)
    IN  IF t[1] = "-" THEN 0 - Magnitude(IntBody(s)) ELSE Magnitude(IntBody(s))

EXPECTED_HEADER == << <<"Unnamed: 0">>, <<"name">>, <<"frequency">> >>

ERRORS_HEADER ==
    << <<"line_no">>, <<"error_code">>, <<"message">>, <<"col0">>,
       <<"col1">>, <<"col2">>, <<"raw_len">> >>

(***************************************************************************)
(* Ordered dictionaries (a Python dict keeps its keys in insertion order). *)
(***************************************************************************)
Keys(d) == {d[i].k : i \in 1..Len(d)}

Get(d, key, default) ==
    IF key \in Keys(d)
    THEN d[CHOOSE i \in 1..Len(d) : d[i].k = key].v
    ELSE default

Put(d, key, val) ==
    IF key \in Keys(d)
    THEN [i \in 1..Len(d) |-> IF d[i].k = key THEN [k |-> key, v |-> val] ELSE d[i]]
    ELSE Append(d, [k |-> key, v |-> val])

RECURSIVE SumValues(_)
SumValues(d) == IF d = <<>> THEN 0 ELSE d[1].v + SumValues(Tail(d))

\* Mutant: the table keeps the order of first encounter.
SortedByCount_Unsorted(d) == d

\* sorted(d.items(), key=lambda x: -x[1]): stable, largest count first.
RECURSIVE SortedByCount(_)
SortedByCount(d) ==
    IF d = <<>> THEN <<>>
    ELSE LET i == CHOOSE i \in 1..Len(d) :
                     /\ \A j \in 1..Len(d) : d[j].v <= d[i].v
                     /\ \A j \in 1..(i - 1) : d[j].v < d[i].v
         IN  <<d[i]>> \o SortedByCount(SubSeq(d, 1, i - 1) \o SubSeq(d, i + 1, Len(d)))

(***************************************************************************)
(* Messages and console lines.                                             *)
(***************************************************************************)
Msg(code, line_no, arg) == [code |-> code, line_no |-> line_no, arg |-> arg]

NoMsg == Msg(None, 0, <<>>)

Line(tag, code, n, msg) == [tag |-> tag, code |-> code, n |-> n, msg |-> msg]

Say(tag) == Line(tag, None, 0, NoMsg)

(***************************************************************************)
(* validate_row                                                            *)
(***************************************************************************)
\* Mutant: the name is checked before the index.
validate_row_NameFirst(row, line_no) ==
    IF Len(row) # 3
    THEN [code |-> "fields_count", msg |-> Msg("fields_count", line_no, row)]
    ELSE IF Strip(row[2]) = <<>>
    THEN [code |-> "name_empty", msg |-> Msg("name_empty", line_no, <<>>)]
    ELSE IF ~IsInt(row[1])
    THEN [code |-> "idx_not_int", msg |-> Msg("idx_not_int", line_no, <<row[1]>>)]
    ELSE IF ~IsInt(row[3])
    THEN [code |-> "freq_not_int", msg |-> Msg("freq_not_int", line_no, <<row[3]>>)]
    ELSE IF IntValue(row[3]) < 0
    THEN [code |-> "freq_negative", msg |-> Msg("freq_negative", line_no, <<row[3]>>)]
    ELSE [code |-> None, msg |-> NoMsg]

validate_row(row, line_no) ==
    IF Len(row) # 3
    THEN [code |-> "fields_count", msg |-> Msg("fields_count", line_no, row)]
    ELSE IF ~IsInt(row[1])
    THEN [code |-> "idx_not_int", msg |-> Msg("idx_not_int", line_no, <<row[1]>>)]
    ELSE IF Strip(row[2]) = <<>>
    THEN [code |-> "name_empty", msg |-> Msg("name_empty", line_no, <<>>)]
    ELSE IF ~IsInt(row[3])
    THEN [code |-> "freq_not_int", msg |-> Msg("freq_not_int", line_no, <<row[3]>>)]
    ELSE IF IntValue(row[3]) < 0
    THEN [code |-> "freq_negative", msg |-> Msg("freq_negative", line_no, <<row[3]>>)]
    ELSE [code |-> None, msg |-> NoMsg]

(***************************************************************************)
(* Files.                                                                  *)
(***************************************************************************)
\* Mutant: the file is decoded as plain utf-8, a leading byte-order mark
\* becomes the first character of the first field.
open_text_utf8_strict_KeepBOM(file) ==
    IF ~file.bom THEN file.first
    ELSE IF file.first = <<>> \/ file.first[1] = <<>> THEN << << <<"BOM">> >> >>
    ELSE << << <<"BOM">> \o file.first[1][1] >> \o Tail(file.first[1]) >>

\* open(path, "r", encoding="utf-8-sig"): the codec consumes a leading
\* byte-order mark, the reader sees the records only.
open_text_utf8_strict(file) == file.first

\* Mutant: only the first line is decoded.
check_utf8_streaming_FirstLine(file) ==
    IF file.bad = "header" THEN <<"UnicodeDecodeError", file.bad>> ELSE <<>>

\* None when every byte decodes, else the diagnostic.
check_utf8_streaming(file) ==
    IF file.bad = "none" THEN <<>> ELSE <<"UnicodeDecodeError", file.bad>>

\* next(r, []) or []
read_header(file) ==
    LET r == open_text_utf8_strict(file)
    IN  IF r = <<>> THEN <<>> ELSE r[1]

\* Mutant: the log carries the record's index, not its line number.
ErrorRow_RowIndex(row, line_no, code, msg) ==
    LET c0 == IF Len(row) > 0 THEN row[1] ELSE <<>>
        c1 == IF Len(row) > 1 THEN row[2] ELSE <<>>
        c2 == IF Len(row) > 2 THEN row[3] ELSE <<>>
    IN  <<line_no - 1, code, msg, c0, c1, c2, Len(row)>>

\* The row the error log gets for an invalid record.
ErrorRow(row, line_no, code, msg) ==
    LET c0 == IF Len(row) > 0 THEN row[1] ELSE <<>>
        c1 == IF Len(row) > 1 THEN row[2] ELSE <<>>
        c2 == IF Len(row) > 2 THEN row[3] ELSE <<>>
    IN  <<line_no, code, msg, c0, c1, c2, Len(row)>>

(***************************************************************************)
(* Inputs.                                                                 *)
(***************************************************************************)
CustomHeader == << <<"idx">>, <<"name">>, <<"freq">> >>

ShortHeader == << <<"a">>, <<"b">> >>

\* First records of a file: none (empty file), or one of the headers.
FirstRecords == {<<>>, <<EXPECTED_HEADER>>, <<CustomHeader>>, <<ShortHeader>>}

BigFiles == [bom : BOOLEAN, first : FirstRecords, bad : {"none", "header", "data"}]

SampleFiles == [bom : {FALSE}, first : {<<>>, <<CustomHeader>>}]

\* The data records of the subject files: every sequence of at most MaxRows
\* records of RowPool, and the four records of scenario A.
RowPool ==
    { << <<"0">>, <<"Alice">>, <<"5">> >>,
      << <<"1">>, <<>>, <<"3">> >>,
      << <<"2">>, <<"Bob">>, <<"-", "1">> >>,
      << <<"x">>, <<"Carl">>, <<"2">> >>,
      << <<"y">>, <<" ">> >>,
      << <<" ", "7">>, <<"Dan">>, <<"z">> >> }

ScenarioA ==
    << << <<"0">>, <<"Alice">>, <<"5">> >>,
       << <<"1">>, <<>>, <<"3">> >>,
       << <<"2">>, <<"Bob">>, <<"-", "1">> >>,
       << <<"x">>, <<"Carl">>, <<"2">> >> >>

\* rs is the beginning of one of the subject files; a file that was read
\* before still holds the same records.
Readable(rs) ==
    /\ \/ Len(rs) <= MaxRows
       \/ Len(rs) <= Len(ScenarioA) /\ rs = SubSeq(ScenarioA, 1, Len(rs))
    /\ first_run # <<>> =>
           /\ Len(rs) <= Len(first_run[1].rows)
           /\ rs = SubSeq(first_run[1].rows, 1, Len(rs))

\* rs is all of the subject file.
EndOfFile(rs) == first_run # <<>> => rs = first_run[1].rows

(***************************************************************************)
(* Init: the arguments main() passes and the state before validate_csv     *)
(* runs its first statement.  The inputs are drawn from two families: one  *)
(* varies the files (byte-order mark, headers, invalid bytes, reference    *)
(* file) under fixed caps, the other varies the caps and the progress      *)
(* interval on a subject file with the built-in header and no reference    *)
(* file.  Both vary the sinks.                                             *)
(***************************************************************************)
PlainFile == [bom |-> FALSE, first |-> <<EXPECTED_HEADER>>, bad |-> "none"]

NoProbe == [row |-> <<>>, line_no |-> 0, code |-> "unused", msg |-> NoMsg]

InitFiles ==
    /\ big_csv \in BigFiles
    /\ sample_csv \in {<<>>} \cup {<<f>> : f \in SampleFiles}
    /\ sample_per_type = 1
    /\ max_print_errors = 1
    /\ progress_every = 0

InitCaps ==
    /\ big_csv = PlainFile
    /\ sample_csv = <<>>
    /\ sample_per_type \in 0..MaxSamples
    /\ max_print_errors \in 0..MaxPrint
    /\ progress_every \in {0, ProgressStep}
    /\ progress_every # 0 => (sample_per_type = 1 /\ max_print_errors = 1)

InitLocals ==
    /\ rows = <<>>
    /\ expected_header = EXPECTED_HEADER
    /\ total = 0
    /\ valid = 0
    /\ err_counts = <<>>
    /\ err_samples = <<>>
    /\ printed = 0
    /\ clean_fh = "none"
    /\ clean_file = <<>>
    /\ clean_closes = 0
    /\ err_fh = "none"
    /\ err_file = <<>>
    /\ err_closes = 0
    /\ stdout = <<>>
    /\ exit_status = -1

Init ==
    /\ InitFiles \/ InitCaps
    /\ out_clean \in BOOLEAN
    /\ errors_out \in BOOLEAN
    /\ pc = "encoding"
    /\ probe = NoProbe
    /\ first_run = <<>>
    /\ InitLocals

locals == <<rows, expected_header, total, valid, err_counts, err_samples, printed>>

sinks == <<clean_fh, clean_file, clean_closes, err_fh, err_file, err_closes>>

(***************************************************************************)
(* validate_csv, step 1: the encoding check.  A problem is printed and the *)
(* function returns; main() then returns and the process ends normally.    *)
(***************************************************************************)
EncodingBad ==
    /\ pc = "encoding"
    /\ check_utf8_streaming(big_csv) # <<>>
    /\ stdout' = stdout \o <<Say("utf8_problem"), Say("utf8_hint")>>
    /\ pc' = "aborted"
    /\ exit_status' = 0
    /\ UNCHANGED <<config, locals, sinks>>

EncodingOk ==
    /\ pc = "encoding"
    /\ check_utf8_streaming(big_csv) = <<>>
    /\ stdout' = Append(stdout, Say("utf8_ok"))
    /\ pc' = "header"
    /\ UNCHANGED <<config, locals, sinks, exit_status>>

(***************************************************************************)
(* Steps 2 and 3: the expected header and the header of the subject file.  *)
(***************************************************************************)
\* Mutant: the reference file is never consulted.
ExpectedHeader_IgnoreSample == EXPECTED_HEADER

\* expected_header = EXPECTED_HEADER; if sample_csv: hdr = read_header(...);
\* if hdr: expected_header = hdr
ExpectedHeader ==
    IF sample_csv # <<>> /\ read_header(sample_csv[1]) # <<>>
    THEN read_header(sample_csv[1])
    ELSE EXPECTED_HEADER

\* next(r, None) on the subject file: <<>> is None, <<h>> the record h.
ObservedHeader ==
    LET r == open_text_utf8_strict(big_csv)
    IN  IF r = <<>> THEN <<>> ELSE <<r[1]>>

\* Mutant: only the number of columns is compared.
HeaderMatches_WidthOnly(header, expected) ==
    header # <<>> /\ Len(header[1]) = Len(expected)

\* not (header != expected_header)
HeaderMatches(header, expected) == header = <<expected>>

HeaderMismatch ==
    /\ pc = "header"
    /\ ~HeaderMatches(ObservedHeader, ExpectedHeader)
    /\ expected_header' = ExpectedHeader
    /\ stdout' = stdout \o <<Say("expected_header"), Say("header_mismatch"),
                             Say("header_in_file"), Say("header_expected")>>
    /\ pc' = "aborted"
    /\ exit_status' = 0
    /\ UNCHANGED <<config, rows, total, valid, err_counts, err_samples, printed, sinks>>

HeaderOk ==
    /\ pc = "header"
    /\ HeaderMatches(ObservedHeader, ExpectedHeader)
    /\ expected_header' = ExpectedHeader
    /\ stdout' = stdout \o <<Say("expected_header"), Say("header_ok")>>
    /\ pc' = "open"
    /\ UNCHANGED <<config, rows, total, valid, err_counts, err_samples, printed, sinks,
                   exit_status>>

(***************************************************************************)
(* Step 4, before the loop: counters reset, the enabled sinks opened and   *)
(* their header rows written.                                              *)
(***************************************************************************)
\* Mutant: the sink files are opened for appending.
OpenForWriting_Append(file) == file

\* open(path, "w", ...): what the file held before is dropped.
OpenForWriting(file) == <<>>

open_errors_writer == OpenForWriting(err_file) \o <<ERRORS_HEADER>>

OpenSinks ==
    /\ pc = "open"
    /\ total' = 0
    /\ valid' = 0
    /\ err_counts' = <<>>
    /\ err_samples' = <<>>
    /\ clean_fh' = IF out_clean THEN "open" ELSE "none"
    /\ clean_file' = IF out_clean THEN OpenForWriting(clean_file) \o <<expected_header>>
                                   ELSE clean_file
    /\ err_fh' = IF errors_out THEN "open" ELSE "none"
    /\ err_file' = IF errors_out THEN open_errors_writer ELSE err_file
    /\ printed' = 0
    /\ pc' = "rows"
    /\ UNCHANGED <<config, rows, expected_header, clean_closes, err_closes, stdout,
                   exit_status>>

(***************************************************************************)
(* The loop body for one record, statement by statement.                   *)
(***************************************************************************)
\* valid += 1
CountValid(code) == IF code = None THEN valid + 1 ELSE valid

\* Mutant: the record is copied whatever validate_row returned.
WriteClean_EveryRow(row, code) ==
    IF clean_fh # "none" THEN Append(clean_file, row) ELSE clean_file

\* if clean_wr: clean_wr.writerow(row)
WriteClean(row, code) ==
    IF code = None /\ clean_fh # "none" THEN Append(clean_file, row) ELSE clean_file

\* Mutant: the count is set, not incremented.
CountError_Overwrite(code) ==
    IF code = None THEN err_counts ELSE Put(err_counts, code, 1)

\* err_counts[code] = err_counts.get(code, 0) + 1
CountError(code) ==
    IF code = None THEN err_counts
    ELSE Put(err_counts, code, Get(err_counts, code, 0) + 1)

\* Mutant: the cap is tested with <= instead of <.
KeepSample_OneMore(code, msg) ==
    LET samples == Get(err_samples, code, <<>>)
    IN  IF code = None THEN err_samples
        ELSE Put(err_samples, code,
                 IF Len(samples) <= sample_per_type THEN Append(samples, msg) ELSE samples)

\* if code not in err_samples: ...; if len(err_samples[code]) < sample_per_type: append
KeepSample(code, msg) ==
    LET samples == Get(err_samples, code, <<>>)
    IN  IF code = None THEN err_samples
        ELSE Put(err_samples, code,
                 IF Len(samples) < sample_per_type THEN Append(samples, msg) ELSE samples)

\* if err_wr: err_wr.writerow([...])
WriteError(row, line_no, code, msg) ==
    IF code # None /\ err_fh # "none"
    THEN Append(err_file, ErrorRow(row, line_no, code, msg))
    ELSE err_file

\* Mutant: a message is printed when it was kept as a sample.
MayPrint_WhenSampled(code) ==
    code # None /\ Len(Get(err_samples, code, <<>>)) < sample_per_type

\* Mutant: the budget is tested with <= instead of <.
MayPrint_OneMore(code) == code # None /\ printed <= max_print_errors

\* if printed < max_print_errors
MayPrint(code) == code # None /\ printed < max_print_errors

\* if progress_every and total % progress_every == 0
Progress(n) ==
    IF progress_every # 0 /\ n % progress_every = 0
    THEN <<Line("progress", None, n, NoMsg)>>
    ELSE <<>>

\* Mutant: a record that fails validation ends the loop.
AfterRow_StopOnError(code) == IF code = None THEN "rows" ELSE "stopped"

\* for line_no, row in enumerate(r, start=2): the loop goes on to the next
\* record whatever validate_row returned.
AfterRow(code) == "rows"

ProcessRow(row) ==
    LET line_no == Len(rows) + 2
        res == validate_row(row, line_no)
        code == res.code
        msg == res.msg
    IN  /\ pc = "rows"
        /\ Readable(Append(rows, row))
        /\ rows' = Append(rows, row)
        /\ total' = total + 1
        /\ valid' = CountValid(code)
        /\ clean_file' = WriteClean(row, code)
        /\ err_counts' = CountError(code)
        /\ err_samples' = KeepSample(code, msg)
        /\ err_file' = WriteError(row, line_no, code, msg)
        /\ printed' = IF MayPrint(code) THEN printed + 1 ELSE printed
        /\ stdout' = stdout
                       \o (IF MayPrint(code) THEN <<Line("error", code, 0, msg)>> ELSE <<>>)
                       \o Progress(total')
        /\ pc' = AfterRow(code)
        /\ UNCHANGED <<config, expected_header, clean_fh, clean_closes, err_fh,
                       err_closes, exit_status>>

(***************************************************************************)
(* I/O failures in the loop: the exception leaves validate_csv and main()  *)
(* (there is no try/finally and the sinks are not context-managed), the    *)
(* interpreter exits with status 1.                                        *)
(***************************************************************************)
\* The reader raises on the next record.
ReadFails ==
    /\ pc = "rows"
    /\ pc' = "raised"
    /\ exit_status' = 1
    /\ UNCHANGED <<config, locals, sinks, stdout>>

\* writerow raises on the record read: the statements before it have run.
WriteFails(row) ==
    LET line_no == Len(rows) + 2
        res == validate_row(row, line_no)
        code == res.code
        msg == res.msg
    IN  /\ pc = "rows"
        /\ Readable(Append(rows, row))
        /\ IF code = None THEN clean_fh # "none" ELSE err_fh # "none"
        /\ rows' = Append(rows, row)
        /\ total' = total + 1
        /\ valid' = CountValid(code)
        /\ err_counts' = CountError(code)
        /\ err_samples' = KeepSample(code, msg)
        /\ pc' = "raised"
        /\ exit_status' = 1
        /\ UNCHANGED <<config, expected_header, printed, sinks, stdout>>

(***************************************************************************)
(* End of file: the sinks are closed, then the report is printed and       *)
(* validate_csv returns.                                                   *)
(***************************************************************************)
\* Mutant: the report is printed with the sinks left as they are.
CloseSinks_Forgotten ==
    /\ pc = "rows"
    /\ EndOfFile(rows)
    /\ pc' = "report"
    /\ UNCHANGED <<config, locals, sinks, stdout, exit_status>>

CloseSinks ==
    /\ pc = "rows"
    /\ EndOfFile(rows)
    /\ clean_fh' = IF clean_fh # "none" THEN "closed" ELSE clean_fh
    /\ clean_closes' = IF clean_fh # "none" THEN clean_closes + 1 ELSE clean_closes
    /\ err_fh' = IF err_fh # "none" THEN "closed" ELSE err_fh
    /\ err_closes' = IF err_fh # "none" THEN err_closes + 1 ELSE err_closes
    /\ pc' = "report"
    /\ UNCHANGED <<config, locals, clean_file, err_file, stdout, exit_status>>

RECURSIVE CountLines(_)
CountLines(d) ==
    IF d = <<>> THEN <<>>
    ELSE <<Line("count", d[1].k, d[1].v, NoMsg)>> \o CountLines(Tail(d))

RECURSIVE MsgLines(_)
MsgLines(ms) ==
    IF ms = <<>> THEN <<>>
    ELSE <<Line("sample", ms[1].code, 0, ms[1])>> \o MsgLines(Tail(ms))

RECURSIVE SampleLines(_)
SampleLines(d) ==
    IF d = <<>> THEN <<>>
    ELSE <<Line("sample_code", d[1].k, 0, NoMsg)>> \o MsgLines(d[1].v)
             \o SampleLines(Tail(d))

ReportLines ==
    <<Say("rule"), Line("total", None, total, NoMsg), Line("valid", None, valid, NoMsg),
      Line("invalid", None, total - valid, NoMsg)>>
    \o (IF out_clean THEN <<Say("clean_path")>> ELSE <<>>)
    \o (IF errors_out THEN <<Say("errors_path")>> ELSE <<>>)
    \o (IF err_counts # <<>>
        THEN <<Say("counts_title")>> \o CountLines(SortedByCount(err_counts))
               \o <<Line("samples_title", None, sample_per_type, NoMsg)>>
               \o SampleLines(err_samples)
        ELSE <<Say("no_errors")>>)

Report ==
    /\ pc = "report"
    /\ stdout' = stdout \o ReportLines
    /\ pc' = "done"
    /\ exit_status' = 0
    /\ UNCHANGED <<config, locals, sinks>>

Next ==
    \/ EncodingBad
    \/ EncodingOk
    \/ HeaderMismatch
    \/ HeaderOk
    \/ OpenSinks
    \/ \E row \in RowPool : ProcessRow(row)
    \/ ReadFails
    \/ \E row \in RowPool : WriteFails(row)
    \/ CloseSinks
    \/ Report

Spec == Init /\ [][Next]_vars

(***************************************************************************)
(* A second run.  The program is started again with the same arguments on  *)
(* the same files: the process starts from fresh locals, a fresh console    *)
(* and no open handle, while the sink files keep what the first run wrote.  *)
(* first_run records what the first run read and produced.                  *)
(***************************************************************************)
RunAgain ==
    /\ pc \in {"done", "aborted"}
    /\ first_run = <<>>
    /\ first_run' = << [rows |-> rows, total |-> total, valid |-> valid,
                        err_counts |-> err_counts, err_samples |-> err_samples,
                        clean_file |-> clean_file, err_file |-> err_file] >>
    /\ pc' = "encoding"
    /\ rows' = <<>>
    /\ expected_header' = EXPECTED_HEADER
    /\ total' = 0
    /\ valid' = 0
    /\ err_counts' = <<>>
    /\ err_samples' = <<>>
    /\ printed' = 0
    /\ clean_fh' = "none"
    /\ clean_closes' = 0
    /\ err_fh' = "none"
    /\ err_closes' = 0
    /\ stdout' = <<>>
    /\ exit_status' = -1
    /\ UNCHANGED <<big_csv, sample_csv, out_clean, errors_out, sample_per_type,
                   max_print_errors, progress_every, probe, clean_file, err_file>>

NextTwice == Next \/ RunAgain

SpecTwice == Init /\ [][NextTwice]_vars

(***************************************************************************)
(* The run without I/O failure.  validate_csv is straight-line code and    *)
(* one loop over a finite file: as long as the process runs, its next      *)
(* statement is executed.  The runs are those of Init without a reference  *)
(* file or byte-order mark, with both caps at 1 and the two sinks enabled   *)
(* or disabled together.                                                   *)
(***************************************************************************)
InitNoFailure ==
    /\ Init
    /\ sample_csv = <<>>
    /\ ~big_csv.bom
    /\ out_clean = errors_out
    /\ sample_per_type = 1
    /\ max_print_errors = 1
    /\ progress_every = 0

NextNoFailure ==
    \/ EncodingBad
    \/ EncodingOk
    \/ HeaderMismatch
    \/ HeaderOk
    \/ OpenSinks
    \/ \E row \in RowPool : ProcessRow(row)
    \/ CloseSinks
    \/ Report

SpecNoFailure == InitNoFailure /\ [][NextNoFailure]_vars /\ WF_vars(NextNoFailure)

(***************************************************************************)
(* validate_row called on its own, on every record over a small alphabet   *)
(* of fields, next to the runs of Spec.                                    *)
(***************************************************************************)
IdxFields == {<<"0">>, <<" ", "7">>, <<"-", "1">>, <<"x">>, <<>>, <<"1", "_", "0">>}

NameFields == {<<"Alice">>, <<>>, <<" ">>, <<"\t", " ">>}

FreqFields == {<<"5">>, <<"-", "1">>, <<"+", "0">>, <<"z">>, <<>>, <<"-">>, <<"3", " ">>}

ProbeRows ==
    {<<i, n, f>> : i \in IdxFields, n \in NameFields, f \in FreqFields}
    \cup {<<>>}
    \cup {<<i>> : i \in IdxFields}
    \cup {<<i, n>> : i \in IdxFields, n \in NameFields}
    \cup {<<i, n, f, f>> : i \in {<<"0">>, <<"x">>}, n \in {<<"Alice">>, <<>>}, f \in {<<"5">>, <<"z">>}}

InitRow ==
    /\ \E row \in ProbeRows, n \in 2..3 :
           probe = [row |-> row, line_no |-> n, code |-> "pending", msg |-> NoMsg]
    /\ big_csv = PlainFile
    /\ sample_csv = <<>>
    /\ out_clean = FALSE
    /\ errors_out = FALSE
    /\ sample_per_type = 1
    /\ max_print_errors = 1
    /\ progress_every = 0
    /\ pc = "validate_row"
    /\ first_run = <<>>
    /\ InitLocals

CallValidateRow ==
    LET res == validate_row(probe.row, probe.line_no)
    IN  /\ pc = "validate_row"
        /\ probe.code = "pending"
        /\ probe' = [probe EXCEPT !.code = res.code, !.msg = res.msg]
        /\ UNCHANGED <<big_csv, sample_csv, out_clean, errors_out, sample_per_type,
                       max_print_errors, progress_every, pc, locals, sinks, stdout,
                       exit_status, first_run>>

NextRow == Next \/ CallValidateRow

SpecRow == (Init \/ InitRow) /\ [][NextRow]_vars

(***************************************************************************)
(* Properties.                                                             *)
(***************************************************************************)
ErrorKinds == {"fields_count", "idx_not_int", "name_empty", "freq_not_int", "freq_negative"}

\* C1: valid + the sum of the per-kind counts equals total after every
\* processed record and at the end of the pass, and total, valid and every
\* per-kind count never decrease.
C1_CountersBalance ==
    /\ valid + SumValues(err_counts) = total
    /\ [][/\ valid' + SumValues(err_counts') = total'
          /\ total' >= total
          /\ valid' >= valid
          /\ \A k \in ErrorKinds : Get(err_counts', k, 0) >= Get(err_counts, k, 0)]_vars

C1_Witness ==
    /\ pc = "done"
    /\ total >= 3
    /\ valid >= 1
    /\ \E i \in 1..Len(err_counts) : err_counts[i].v >= 2

\* The rules of the record validator, in the order the contract gives them.
RuleFieldCount(row) == Len(row) = 3

RuleIndexInt(row) == IsInt(row[1])

RuleNameNonEmpty(row) == Strip(row[2]) # <<>>

RuleFrequencyInt(row) == IsInt(row[3])

RuleFrequencyNonNegative(row) == IntValue(row[3]) >= 0

FirstFailure(row) ==
    IF ~RuleFieldCount(row) THEN "fields_count"
    ELSE IF ~RuleIndexInt(row) THEN "idx_not_int"
    ELSE IF ~RuleNameNonEmpty(row) THEN "name_empty"
    ELSE IF ~RuleFrequencyInt(row) THEN "freq_not_int"
    ELSE IF ~RuleFrequencyNonNegative(row) THEN "freq_negative"
    ELSE None

\* How many of the records rs have k as their first failing rule.
RECURSIVE Failing(_, _)
Failing(rs, k) ==
    IF rs = <<>> THEN 0
    ELSE (IF FirstFailure(rs[1]) = k THEN 1 ELSE 0) + Failing(Tail(rs), k)

\* C2: validate_row returns the kind of the first failing rule, in the order
\* field count, index, name, frequency, and no error when all pass; the run
\* counts every record under that kind, and the four records of scenario A
\* end with total=4, valid=1, name_empty=1, freq_negative=1, idx_not_int=1.
C2_FirstFailingRule ==
    /\ probe.code \notin {"unused", "pending"} => probe.code = FirstFailure(probe.row)
    /\ valid = Failing(rows, None)
    /\ \A k \in ErrorKinds : Get(err_counts, k, 0) = Failing(rows, k)
    /\ (pc = "done" /\ rows = ScenarioA) =>
           /\ total = 4
           /\ valid = 1
           /\ Keys(err_counts) = {"name_empty", "freq_negative", "idx_not_int"}
           /\ \A k \in Keys(err_counts) : Get(err_counts, k, 0) = 1

C2_Witness ==
    /\ pc = "done"
    /\ rows = ScenarioA
    /\ expected_header = CustomHeader

\* The first record the reader yields differs from the expected header: it
\* is missing, has another number of columns, or differs in some position.
HeaderDiffers ==
    LET first == big_csv.first
    IN  \/ first = <<>>
        \/ Len(first[1]) # Len(ExpectedHeader)
        \/ \E i \in 1..Len(ExpectedHeader) : first[1][i] # ExpectedHeader[i]

NothingValidatedOrWritten ==
    /\ rows = <<>>
    /\ total = 0
    /\ valid = 0
    /\ err_counts = <<>>
    /\ clean_fh = "none"
    /\ clean_file = <<>>
    /\ err_fh = "none"
    /\ err_file = <<>>

\* C3: when the first record of the subject file differs from the expected
\* header, no data row is validated (total stays 0) and nothing is written to
\* the clean copy or the error log.
C3_HeaderMismatchStops ==
    HeaderDiffers =>
        /\ pc \in {"encoding", "header", "aborted"}
        /\ NothingValidatedOrWritten

C3_Witness ==
    /\ pc = "aborted"
    /\ big_csv.bad = "none"
    /\ big_csv.first = <<ShortHeader>>
    /\ sample_csv = <<>>
    /\ out_clean
    /\ errors_out
    /\ total = 0

HeaderCheckTags == {"expected_header", "header_mismatch", "header_ok"}

\* C4: when the subject file holds an invalid byte sequence anywhere, the run
\* stops at the encoding check: the header check never runs, no data row is
\* validated and neither sink is opened or written.
C4_InvalidEncodingStops ==
    big_csv.bad # "none" =>
        /\ pc \in {"encoding", "aborted"}
        /\ \A i \in 1..Len(stdout) : stdout[i].tag \notin HeaderCheckTags
        /\ NothingValidatedOrWritten

C4_Witness ==
    /\ pc = "aborted"
    /\ big_csv.bad = "data"
    /\ big_csv.first = <<EXPECTED_HEADER>>
    /\ out_clean
    /\ errors_out
    /\ \E i \in 1..Len(stdout) : stdout[i].tag = "utf8_problem"

\* C5: on every exit path of the run (end of file, abort before the pass,
\* I/O failure in the pass) every sink that was opened has been closed
\* exactly once.
C5_SinksClosedOnEveryExit ==
    exit_status # -1 =>
        /\ clean_fh # "open"
        /\ err_fh # "open"
        /\ clean_closes = (IF clean_fh = "closed" THEN 1 ELSE 0)
        /\ err_closes = (IF err_fh = "closed" THEN 1 ELSE 0)

\* C6: a fatal condition (invalid encoding, header mismatch) ends the run
\* with a non-zero status, a completed pass with status 0 however many
\* records are invalid.
C6_FatalStatusNonZero ==
    /\ pc = "aborted" => exit_status # 0
    /\ pc = "done" => exit_status = 0

\* The messages of the records of rs classified k, in input order; n is the
\* line number of the first record of rs.
RECURSIVE MsgsOfKind(_, _, _)
MsgsOfKind(rs, n, k) ==
    IF rs = <<>> THEN <<>>
    ELSE (IF validate_row(rs[1], n).code = k THEN <<validate_row(rs[1], n).msg>> ELSE <<>>)
           \o MsgsOfKind(Tail(rs), n + 1, k)

Take(s, n) == SubSeq(s, 1, n)

\* The messages of the console lines tagged tag for kind k, in print order.
Printed(tag, k) ==
    LET ls == SelectSeq(stdout, LAMBDA l : l.tag = tag /\ l.code = k)
    IN  [i \in 1..Len(ls) |-> ls[i].msg]

\* C7: a kind that occurs at least sample_per_type times keeps exactly the
\* messages of its first sample_per_type occurrences, in input order; the
\* report prints exactly those and the kind's count is the number of all its
\* occurrences.
C7_FirstKSamples ==
    \A k \in ErrorKinds :
        LET occ == MsgsOfKind(rows, 2, k)
        IN  Len(occ) >= sample_per_type =>
                /\ Get(err_samples, k, <<>>) = Take(occ, sample_per_type)
                /\ Get(err_counts, k, 0) = Len(occ)
                /\ pc = "done" =>
                       /\ Printed("sample", k) = Take(occ, sample_per_type)
                       /\ Len(occ) > 0 =>
                              \E i \in 1..Len(stdout) :
                                  /\ stdout[i].tag = "count"
                                  /\ stdout[i].code = k
                                  /\ stdout[i].n = Len(occ)

C7_Witness ==
    /\ pc = "done"
    /\ sample_per_type = 2
    /\ total >= 3
    /\ valid = 0
    /\ Len(err_counts) = 1
    /\ Len(err_samples[1].v) = 2

\* The number of console lines that carry a per-record error message under
\* one of the tags.
RECURSIVE LinesTagged(_, _)
LinesTagged(ls, tags) ==
    IF ls = <<>> THEN 0
    ELSE (IF ls[1].tag \in tags THEN 1 ELSE 0) + LinesTagged(Tail(ls), tags)

\* C8 as stated: all console lines carrying a per-record error message, the
\* ones printed in the pass and the samples of the report, stay within
\* max_print_errors.
C8_AllErrorLinesWithinBudget ==
    LinesTagged(stdout, {"error", "sample"}) <= max_print_errors

\* C8 as amended: the lines printed in the pass stay within max_print_errors;
\* the report adds at most sample_per_type sample lines for each kind.
C8_InlineLinesWithinBudget ==
    /\ LinesTagged(stdout, {"error"}) <= max_print_errors
    /\ LinesTagged(stdout, {"error"}) = printed
    /\ \A k \in ErrorKinds : Len(Printed("sample", k)) <= sample_per_type

C8_Witness ==
    /\ pc = "done"
    /\ total - valid > max_print_errors
    /\ LinesTagged(stdout, {"error"}) = max_print_errors
    /\ max_print_errors >= 1
    /\ LinesTagged(stdout, {"sample"}) >= 2

\* The records validate_row classifies as valid, in order.
ValidOnly(rs) == SelectSeq(rs, LAMBDA r : validate_row(r, 2).code = None)

\* C9: with the clean copy enabled and the pass complete, the clean copy is
\* the expected header followed by exactly the valid input records, unchanged
\* and in input order; each of its data records validates as valid and their
\* number is the valid counter.
C9_CleanCopyIsValidRows ==
    (out_clean /\ pc \in {"report", "done"}) =>
        /\ clean_file = <<ExpectedHeader>> \o ValidOnly(rows)
        /\ \A i \in 2..Len(clean_file) : validate_row(clean_file[i], i).code = None
        /\ Len(clean_file) - 1 = valid

C9_Witness ==
    /\ pc = "done"
    /\ out_clean
    /\ expected_header = CustomHeader
    /\ Len(rows) >= 3
    /\ validate_row(rows[1], 2).code # None
    /\ valid >= 2
    /\ Len(clean_file) = 3

Pad(row, i) == IF Len(row) >= i THEN row[i] ELSE <<>>

\* The error-log rows the contract asks for: rs are the records from the
\* k-th data record on.
RECURSIVE ExpectedLog(_, _)
ExpectedLog(rs, k) ==
    LET res == validate_row(rs[1], k + 1)
    IN  IF rs = <<>> THEN <<>>
        ELSE (IF res.code = None THEN <<>>
              ELSE << <<k + 1, res.code, res.msg, Pad(rs[1], 1), Pad(rs[1], 2),
                        Pad(rs[1], 3), Len(rs[1])>> >>)
               \o ExpectedLog(Tail(rs), k + 1)

\* C10: with the error log enabled and the pass complete, the log is the
\* 7-column header followed by one row per invalid record, in input order:
\* line number k+1 for the k-th data record, the kind and message of
\* validate_row, the first three fields padded with empty strings, and the
\* record's field count.
C10_ErrorLogRows ==
    (errors_out /\ pc \in {"report", "done"}) =>
        /\ err_file[1] = << <<"line_no">>, <<"error_code">>, <<"message">>, <<"col0">>,
                            <<"col1">>, <<"col2">>, <<"raw_len">> >>
        /\ Tail(err_file) = ExpectedLog(rows, 1)

C10_Witness ==
    /\ pc = "done"
    /\ errors_out
    /\ Len(rows) >= 3
    /\ validate_row(rows[1], 2).code = None
    /\ Len(rows[3]) = 2
    /\ Len(err_file) = 3

\* C11: absent I/O failure, a run that passed both checks validates every
\* record it reads exactly once (the counters follow the records read, in
\* order) and goes on to print the final report, whatever the records are.
C11_PassCompletes ==
    /\ [](pc \in {"rows", "report", "done"} =>
            /\ total = Len(rows)
            /\ valid = Failing(rows, None)
            /\ total - valid = SumValues(err_counts))
    /\ (pc = "rows") ~> (/\ pc = "done"
                         /\ \E i \in 1..Len(stdout) :
                                stdout[i].tag = "total" /\ stdout[i].n = Len(rows))

C11_Witness ==
    /\ pc = "done"
    /\ Len(rows) = MaxRows
    /\ valid = 0
    /\ \E i \in 1..Len(stdout) : stdout[i].tag = "invalid" /\ stdout[i].n = MaxRows

\* Step 2 has run: the expected header was resolved and printed.
HeaderResolved == \E i \in 1..Len(stdout) : stdout[i].tag = "expected_header"

\* The clean copy, once opened, starts with the expected header.
CleanCopyHeader == clean_fh # "none" => Len(clean_file) >= 1 /\ clean_file[1] = expected_header

\* C12 (as stated): once resolved, the expected header is the first record of
\* the reference file whenever one is configured, whatever it holds (nothing
\* for a file without records), and the built-in default only when none is
\* configured; the clean copy starts with it.
C12_ReferenceAlwaysUsed ==
    HeaderResolved =>
        /\ sample_csv # <<>> => expected_header = read_header(sample_csv[1])
        /\ sample_csv = <<>> => expected_header = EXPECTED_HEADER
        /\ CleanCopyHeader

\* C12 (amended): once resolved, the expected header is the first record of
\* the configured reference file when that record exists and is not empty,
\* and the built-in default otherwise (no reference file, or one without a
\* usable first record); the clean copy starts with it.
C12_ReferenceUsedWhenNonEmpty ==
    HeaderResolved =>
        /\ (sample_csv # <<>> /\ read_header(sample_csv[1]) # <<>>)
               => expected_header = read_header(sample_csv[1])
        /\ (sample_csv = <<>> \/ read_header(sample_csv[1]) = <<>>)
               => expected_header = EXPECTED_HEADER
        /\ CleanCopyHeader

\* A reference file without records is configured, the subject file carries
\* the built-in header, and the clean copy was written under that header.
C12_Witness ==
    /\ pc = "done"
    /\ sample_csv # <<>>
    /\ read_header(sample_csv[1]) = <<>>
    /\ out_clean
    /\ Len(rows) >= 1
    /\ clean_file[1] = EXPECTED_HEADER

\* The per-kind count table of the console output.
CountTable == SelectSeq(stdout, LAMBDA l : l.tag = "count")

\* The position in the input of the first record failing with kind k.
FirstSeen(rs, k) ==
    CHOOSE i \in 1..Len(rs) :
        /\ FirstFailure(rs[i]) = k
        /\ \A j \in 1..(i - 1) : FirstFailure(rs[j]) # k

\* C13: the final report's count table lists every kind that occurred exactly
\* once with its count, largest count first, kinds of equal count in the
\* order of their first occurrence in the input; without errors there is no
\* table.
C13_CountTableOrdered ==
    pc = "done" =>
        /\ \A k \in ErrorKinds :
               Cardinality({i \in 1..Len(CountTable) : CountTable[i].code = k})
                   = IF Failing(rows, k) > 0 THEN 1 ELSE 0
        /\ \A i \in 1..Len(CountTable) :
               /\ CountTable[i].code \in ErrorKinds
               /\ CountTable[i].n = Failing(rows, CountTable[i].code)
        /\ \A i, j \in 1..Len(CountTable) :
               i < j =>
                   \/ CountTable[i].n > CountTable[j].n
                   \/ /\ CountTable[i].n = CountTable[j].n
                      /\ FirstSeen(rows, CountTable[i].code)
                             < FirstSeen(rows, CountTable[j].code)
        /\ LinesTagged(stdout, {"counts_title"}) = (IF total = valid THEN 0 ELSE 1)
        /\ LinesTagged(stdout, {"no_errors"}) = (IF total = valid THEN 1 ELSE 0)
        /\ total = valid => CountTable = <<>>

\* A report whose table puts a kind met later, but more often, first.
C13_Witness ==
    /\ pc = "done"
    /\ Len(CountTable) = 2
    /\ CountTable[1].n = 2
    /\ FirstSeen(rows, CountTable[2].code) < FirstSeen(rows, CountTable[1].code)

\* A report whose table breaks a tie by the order of first occurrence.
C13_WitnessTie ==
    /\ pc = "done"
    /\ Len(CountTable) = 3
    /\ CountTable[1].n = CountTable[2].n

\* C14: a second run on the same input with the same configuration ends with
\* the counters, the clean copy, the error log and the sample sets of the
\* first run.
C14_SecondRunIdentical ==
    (first_run # <<>> /\ pc \in {"done", "aborted"}) =>
        /\ rows = first_run[1].rows
        /\ total = first_run[1].total
        /\ valid = first_run[1].valid
        /\ err_counts = first_run[1].err_counts
        /\ err_samples = first_run[1].err_samples
        /\ clean_file = first_run[1].clean_file
        /\ err_file = first_run[1].err_file

\* A second run that ended after valid and invalid records, both sinks on.
C14_Witness ==
    /\ first_run # <<>>
    /\ pc = "done"
    /\ Len(clean_file) >= 2
    /\ Len(err_file) >= 3
    /\ Len(err_samples) >= 1

\* The console shows a line of the given tag.
Said(tag) == \E i \in 1..Len(stdout) : stdout[i].tag = tag

\* The sink is in place for the pass: opened, with its header row first.
SinkReady(enabled, fh, file, header) ==
    IF enabled THEN fh # "none" /\ Len(file) >= 1 /\ file[1] = header
    ELSE fh = "none" /\ file = <<>>

SinkLifecycle ==
    /\ (rows # <<>> \/ total > 0) =>
           /\ SinkReady(out_clean, clean_fh, clean_file, expected_header)
           /\ SinkReady(errors_out, err_fh, err_file, ERRORS_HEADER)
    /\ (clean_fh # "none" \/ err_fh # "none") => Said("utf8_ok") /\ Said("header_ok")
    /\ Said("rule") =>
           /\ clean_fh = (IF out_clean THEN "closed" ELSE "none")
           /\ err_fh = (IF errors_out THEN "closed" ELSE "none")

SinkWrites ==
    /\ clean_file' # clean_file => clean_fh' = "open"
    /\ err_file' # err_file => err_fh' = "open"
    /\ clean_fh = "closed" => clean_fh' = "closed"
    /\ err_fh = "closed" => err_fh' = "closed"

\* C15: every enabled sink is opened and holds its header row before the
\* first data record is validated, and is opened only after the encoding and
\* header checks succeeded; a sink file changes only while its handle is
\* open, and a closed handle stays closed; when the final report is printed
\* every opened sink has been closed.
C15_SinkLifecycleOrder == []SinkLifecycle /\ [][SinkWrites]_vars

\* A run with both sinks that wrote to both and printed the report.
C15_Witness ==
    /\ pc = "done"
    /\ clean_fh = "closed"
    /\ err_fh = "closed"
    /\ Len(clean_file) >= 2
    /\ Len(err_file) >= 2
    /\ Said("rule")

Min(a, b) == IF a < b THEN a ELSE b

\* The samples held for kind k.
SamplesOf(d, k) == Get(d, k, <<>>)

SamplesAndPrintsFollowCounts ==
    /\ \A k \in ErrorKinds :
           Len(SamplesOf(err_samples, k)) = Min(Get(err_counts, k, 0), sample_per_type)
    /\ pc # "raised" =>
           /\ printed = Min(total - valid, max_print_errors)
           /\ LinesTagged(stdout, {"error"}) = printed

\* A step that processed an invalid record of kind k to its end.
Processed(k) ==
    /\ Get(err_counts', k, 0) = Get(err_counts, k, 0) + 1
    /\ pc' # "raised"

SampleAndPrintDecidedApart ==
    \A k \in ErrorKinds :
        Processed(k) =>
            /\ Len(SamplesOf(err_samples', k)) = Len(SamplesOf(err_samples, k)) + 1
                   <=> Len(SamplesOf(err_samples, k)) < sample_per_type
            /\ Len(SamplesOf(err_samples', k)) # Len(SamplesOf(err_samples, k)) + 1
                   => SamplesOf(err_samples', k) = SamplesOf(err_samples, k)
            /\ printed' = printed + 1 <=> printed < max_print_errors
            /\ printed' # printed + 1 => printed' = printed

\* C16: the message of an invalid record is kept as a sample exactly when its
\* kind holds fewer than sample_per_type samples, and printed exactly when
\* fewer than max_print_errors messages were printed, each whatever the other
\* counter says; so each kind holds min(count, sample_per_type) samples and
\* min(invalid records, max_print_errors) messages were printed in the pass.
C16_IndependentCaps == []SamplesAndPrintsFollowCounts /\ [][SampleAndPrintDecidedApart]_vars

\* One kind met twice under a sample cap of 1 and a print budget of 2: one
\* sample kept, both messages printed.
C16_Witness ==
    /\ sample_per_type = 1
    /\ max_print_errors = 2
    /\ Len(err_counts) = 1
    /\ err_counts[1].v = 2
    /\ Len(err_samples[1].v) = 1
    /\ printed = 2

\* Two kinds met under a sample cap of 2 and a print budget of 1: both
\* messages kept, one printed.
C16_WitnessBudgetSpent ==
    /\ sample_per_type = 2
    /\ max_print_errors = 1
    /\ Len(err_samples) = 2
    /\ printed = 1
    /\ pc = "rows"

\* The header step has compared the subject file's first record.
HeaderCompared == Said("header_ok") \/ Said("header_mismatch")

\* C17 (as stated): a subject file that starts with a byte-order mark, under
\* the built-in expected header, never passes the header check: no data
\* record is validated and the header step ends in a mismatch.
C17_BomHeaderAborts ==
    (big_csv.bom /\ ExpectedHeader = EXPECTED_HEADER) =>
        /\ ~Said("header_ok")
        /\ pc \in {"encoding", "header", "aborted"}
        /\ NothingValidatedOrWritten

\* C17 (amended): a leading byte-order mark is dropped when the subject file
\* is read: the header step of a file that starts with one ends in a mismatch
\* exactly when the first record after the mark differs from the expected
\* header, and with the built-in header after the mark the data records are
\* validated.
C17_BomStripped ==
    (big_csv.bom /\ HeaderCompared) =>
        /\ Said("header_mismatch") <=> HeaderDiffers
        /\ Said("header_ok") <=> ~HeaderDiffers
        /\ Said("header_mismatch") => pc = "aborted" /\ NothingValidatedOrWritten
        /\ Said("header_ok") => pc \in {"open", "rows", "report", "done", "raised"}

\* A file with a byte-order mark and the built-in header, no reference file:
\* the pass ran and the report was printed.
C17_Witness ==
    /\ big_csv.bom
    /\ sample_csv = <<>>
    /\ big_csv.first = <<EXPECTED_HEADER>>
    /\ pc = "done"
    /\ total >= 1
    /\ Said("header_ok")

====
